---- MODULE Spec2Model ----
(***************************************************************************)
(* Model of src/app.py, the Streamlit sales board "Tablero de Control de   *)
(* Ventas - Plan 2025".  One run of the script is a pipeline of stages:    *)
(* connection and formatting (lines 17-52), sidebar filters (57-70),       *)
(* business logic (77-115), KPI row (120-127), charts (133-162), detail    *)
(* table (168-184) and stalled-phases pie (186-196).  The two sheets read  *)
(* from Google Sheets are the inputs of the run.                           *)
(*                                                                         *)
(* A sheet is a sequence of rows.  A cell that the script converts         *)
(* (Fecha_Reporte, Valor, Meta_Total) is a record [t, n]: t = "num" for a  *)
(* parsable value n, t = "txt" for text that does not parse, t = "nan"     *)
(* for an empty cell.  Dates are week numbers 1..MaxFecha.  The float      *)
(* division of line 115 is kept exact as a fraction [num, den].            *)
(* Fase_Detalle is modelled by the presence of its column only: its text   *)
(* reaches nothing but the pie chart and the displayed table.              *)
(***************************************************************************)
EXTENDS Integers, Sequences, FiniteSets, TLC

VARIABLES
    hoja_registros,   \* worksheet "Registro_Semanal" as read (line 22)
    hoja_metas,       \* worksheet "Metas" as read (line 23); df_metas is never reformatted
    cols_registros,   \* column names of Registro_Semanal after strip (line 27)
    cols_metas,       \* column names of Metas after strip (line 28)
    fetch_ok,         \* whether st.connection / conn.read succeed (lines 19-23)
    pc,               \* position of the script
    df_registros,     \* formatted registry (lines 43-47)
    mes_seleccionado, \* line 66
    vendedor_sel,     \* line 70
    df_mes,           \* line 77
    fecha_maxima,     \* line 85
    df_actual,        \* lines 86, 90
    df_evo,           \* lines 91, 101
    meta_total,       \* lines 97, 99, 104
    total_proyectado, \* line 107
    total_op,         \* line 110
    total_pendiente,  \* line 111
    total_pipeline,   \* line 112
    cumplimiento,     \* line 115
    df_evo_agg,       \* line 153
    df_tabla,         \* lines 175-176
    salida,           \* messages, metrics, charts and tables emitted, in order
                      \* (titles and section headers are left out)
    excepcion         \* the uncaught exception that ended the run, "" if none

vars == <<hoja_registros, hoja_metas, cols_registros, cols_metas, fetch_ok, pc,
          df_registros, mes_seleccionado, vendedor_sel, df_mes, fecha_maxima,
          df_actual, df_evo, meta_total, total_proyectado, total_op,
          total_pendiente, total_pipeline, cumplimiento, df_evo_agg, df_tabla,
          salida, excepcion>>

entradas == <<hoja_registros, hoja_metas, cols_registros, cols_metas, fetch_ok>>

calculos == <<df_mes, fecha_maxima, df_actual, df_evo, meta_total,
              total_proyectado, total_op, total_pendiente, total_pipeline,
              cumplimiento>>

-----------------------------------------------------------------------------
(* Bounds of the model *)

MaxFilas == 2       \* rows of Registro_Semanal
MaxFecha == 2       \* report weeks
MaxValor == 2       \* largest Valor
MaxMetaFilas == 2   \* rows of Metas
MaxMeta == 2        \* largest Meta_Total

-----------------------------------------------------------------------------
(* Values *)

NaT == 0            \* pd.to_datetime(errors='coerce') of an unparsable date
NaN == "NaN"        \* an empty cell of a text column; NaN equals nothing

Num(k) == [t |-> "num", n |-> k]
Texto == [t |-> "txt", n |-> 0]
Vacio == [t |-> "nan", n |-> 0]

Todos == "Todos"
OP_EMITIDA == "OP Emitida"
PENDIENTE_OP == "Pendiente OP"
PIPELINE == "Pipeline"

ColsRegistro == {"Fecha_Reporte", "Cliente", "Vendedor", "Estado", "Valor",
                 "Mes_Objetivo", "Fase_Detalle"}
ColsMetas == {"Mes_Objetivo", "Vendedor", "Meta_Total"}

\* pandas ==: NaN is equal to nothing, itself included
Igual(a, b) == a # NaN /\ b # NaN /\ a = b

-----------------------------------------------------------------------------
(* Sequence helpers *)

Rango(s) == {s[i] : i \in DOMAIN s}

RECURSIVE Ordenar(_)
Ordenar(S) ==
    IF S = {} THEN <<>>
    ELSE LET m == CHOOSE x \in S : \A y \in S : x <= y
         IN <<m>> \o Ordenar(S \ {m})

SeqsHasta(S, n) == UNION {[1..k -> S] : k \in 0..n}

\* every reordering of the rows of s
Reordenes(s) ==
    {[i \in 1..Len(s) |-> s[p[i]]] : p \in Permutations(1..Len(s))}

-----------------------------------------------------------------------------
(* 2. Formatting (lines 41-47) *)

ToDatetime(c) == IF c.t = "num" THEN c.n ELSE NaT

ToNumeric(c) == IF c.t = "num" THEN c.n ELSE 0

Formatear(hoja) ==
    LET conv == [i \in DOMAIN hoja |->
                   [hoja[i] EXCEPT !.Fecha_Reporte = ToDatetime(@),
                                   !.Valor = ToNumeric(@)]]
    IN SelectSeq(conv, LAMBDA r : r.Fecha_Reporte # NaT)

-----------------------------------------------------------------------------
(* 3. Filters (lines 57-70) *)

MesesDisponibles(df) == {df[i].Mes_Objetivo : i \in DOMAIN df}

\* sorted() compares the labels: a NaN (float) beside a text label raises
SortedFalla(meses) == NaN \in meses /\ meses # {NaN}

Vendedores(df) == {Todos} \cup {df[i].Vendedor : i \in DOMAIN df}

-----------------------------------------------------------------------------
(* 4. Business logic (lines 77-115) *)

FiltrarMes(df, mes) == SelectSeq(df, LAMBDA r : Igual(r.Mes_Objetivo, mes))

FechaMaxima_Primera(df) ==
    CHOOSE f \in {df[i].Fecha_Reporte : i \in DOMAIN df} :
        \A i \in DOMAIN df : f <= df[i].Fecha_Reporte

FechaMaxima(df) ==
    CHOOSE f \in {df[i].Fecha_Reporte : i \in DOMAIN df} :
        \A i \in DOMAIN df : df[i].Fecha_Reporte <= f

FotoReciente(df) ==
    SelectSeq(df, LAMBDA r : r.Fecha_Reporte = FechaMaxima(df))

FiltrarVendedor(df, v) == SelectSeq(df, LAMBDA r : Igual(r.Vendedor, v))

DfActual_FiltroAntes(mes, v) ==
    IF v # Todos THEN FotoReciente(FiltrarVendedor(mes, v)) ELSE FotoReciente(mes)

\* B and C: the latest report of the month, then the salesperson filter
DfActual(mes, v) ==
    IF v # Todos THEN FiltrarVendedor(FotoReciente(mes), v) ELSE FotoReciente(mes)

DfEvo_Foto(mes, v) == DfActual(mes, v)

\* the rows behind the evolution chart
DfEvo(mes, v) == IF v # Todos THEN FiltrarVendedor(mes, v) ELSE mes

MetaFiltrada_SinVendedor(metas, mes, v) ==
    SelectSeq(metas, LAMBDA m : Igual(m.Mes_Objetivo, mes))

MetaFiltrada(metas, mes, v) ==
    IF v # Todos
    THEN SelectSeq(metas, LAMBDA m : Igual(m.Mes_Objetivo, mes) /\ Igual(m.Vendedor, v))
    ELSE SelectSeq(metas, LAMBDA m : Igual(m.Mes_Objetivo, mes))

\* Series.sum() of Meta_Total: empty cells are skipped
RECURSIVE SumaMeta(_)
SumaMeta(mf) ==
    IF mf = <<>> THEN 0
    ELSE (IF Head(mf).Meta_Total.t = "num" THEN Head(mf).Meta_Total.n ELSE 0)
         + SumaMeta(Tail(mf))

\* Meta_Total is never converted: a text cell among the summed rows makes the
\* sum a str, or the sum itself raise (line 97 or 104), and a str sum makes
\* meta_total > 0 raise TypeError (line 115); with the Estado column missing
\* too, line 110 raises KeyError in between
MetaNoNumerica(mf) == \E i \in DOMAIN mf : mf[i].Meta_Total.t = "txt"

RECURSIVE SumaValor(_)
SumaValor(df) ==
    IF df = <<>> THEN 0 ELSE Head(df).Valor + SumaValor(Tail(df))

TotalEstado_SinFiltro(df, estado) == SumaValor(df)

TotalEstado(df, estado) ==
    SumaValor(SelectSeq(df, LAMBDA r : r.Estado = estado))

Cumplimiento_SinGuarda(total, meta) == [num |-> total * 100, den |-> meta]

Cumplimiento(total, meta) ==
    IF meta > 0 THEN [num |-> total * 100, den |-> meta]
    ELSE [num |-> 0, den |-> 1]

-----------------------------------------------------------------------------
(* 6. Charts and 7. detail (lines 133-196) *)

EvoAgg(df) ==
    LET fs == Ordenar({df[i].Fecha_Reporte : i \in DOMAIN df})
    IN [i \in 1..Len(fs) |->
          [Fecha_Reporte |-> fs[i],
           Valor |-> SumaValor(SelectSeq(df, LAMBDA r : r.Fecha_Reporte = fs[i]))]]

ColumnasTabla(df) ==
    [i \in DOMAIN df |->
       [Cliente |-> df[i].Cliente, Vendedor |-> df[i].Vendedor,
        Estado |-> df[i].Estado, Valor |-> df[i].Valor]]

EnOrden_Ascendente(a, b) == a <= b

EnOrden(a, b) == a >= b

\* sort_values(by='Valor', ascending=False) with the default kind='quicksort',
\* which is not stable: any arrangement in descending Valor can result
SortValues(df) ==
    {t \in Reordenes(df) :
        \A i \in 1..(Len(t) - 1) : EnOrden(t[i].Valor, t[i + 1].Valor)}

-----------------------------------------------------------------------------
(* The run *)

AvisoSinMeses == <<"warning">>      \* st.warning, line 63
AvisoMesVacio_Error == <<"error">>

AvisoMesVacio == <<"info">>         \* st.info, line 80

Detener(nuevos) ==
    /\ pc' = "stop"
    /\ salida' = salida \o nuevos

Lanzar(e) ==
    /\ pc' = "excepcion"
    /\ excepcion' = e

Conectar ==
    /\ pc = "conectar"
    /\ UNCHANGED <<entradas, mes_seleccionado, vendedor_sel, calculos,
                   df_evo_agg, df_tabla, excepcion>>
    /\ IF ~fetch_ok
       THEN Detener(<<"error", "code">>) /\ UNCHANGED df_registros
       ELSE IF "Mes_Objetivo" \notin cols_metas
       THEN Detener(<<"error", "info">>) /\ UNCHANGED df_registros
       ELSE IF "Mes_Objetivo" \notin cols_registros
       THEN Detener(<<"error">>) /\ UNCHANGED df_registros
       ELSE IF "Fecha_Reporte" \notin cols_registros \/ "Valor" \notin cols_registros
       THEN Detener(<<"error", "code">>) /\ UNCHANGED df_registros
       ELSE /\ df_registros' = Formatear(hoja_registros)
            /\ pc' = "filtros"
            /\ UNCHANGED salida

Filtros ==
    /\ pc = "filtros"
    /\ UNCHANGED <<entradas, df_registros, calculos, df_evo_agg, df_tabla>>
    /\ LET meses == MesesDisponibles(df_registros) IN
       IF SortedFalla(meses)
       THEN Lanzar("TypeError") /\ UNCHANGED <<mes_seleccionado, vendedor_sel, salida>>
       ELSE IF meses = {}
       THEN Detener(AvisoSinMeses) /\ UNCHANGED <<mes_seleccionado, vendedor_sel, excepcion>>
       ELSE \E mes \in meses :
            /\ mes_seleccionado' = mes
            /\ IF "Vendedor" \notin cols_registros
               THEN Lanzar("KeyError") /\ UNCHANGED <<vendedor_sel, salida>>
               ELSE \E v \in Vendedores(df_registros) :
                    /\ vendedor_sel' = v
                    /\ pc' = "procesar"
                    /\ UNCHANGED <<salida, excepcion>>

\* a run that stops or raises in section 4 shows none of its results: they
\* are left as they were
SinCalculo ==
    UNCHANGED <<meta_total, total_proyectado, total_op, total_pendiente,
                total_pipeline, cumplimiento>>

Procesar ==
    /\ pc = "procesar"
    /\ UNCHANGED <<entradas, df_registros, mes_seleccionado, vendedor_sel,
                   df_evo_agg, df_tabla>>
    /\ LET mes == FiltrarMes(df_registros, mes_seleccionado)
           actual == DfActual(mes, vendedor_sel)
           evo == DfEvo(mes, vendedor_sel)
           mf == MetaFiltrada(hoja_metas, mes_seleccionado, vendedor_sel)
           total == SumaValor(actual)
       IN
       /\ df_mes' = mes
       /\ IF mes = <<>>
          THEN /\ Detener(AvisoMesVacio)
               /\ UNCHANGED <<fecha_maxima, df_actual, df_evo, excepcion>>
               /\ SinCalculo
          ELSE /\ fecha_maxima' = FechaMaxima(mes)
               /\ df_actual' = actual
               /\ df_evo' = evo
               /\ UNCHANGED salida
               /\ IF vendedor_sel # Todos /\ "Vendedor" \notin cols_metas
                  THEN Lanzar("KeyError") /\ SinCalculo
                  ELSE IF (vendedor_sel = Todos \/ mf # <<>>) /\ "Meta_Total" \notin cols_metas
                  THEN Lanzar("KeyError") /\ SinCalculo
                  ELSE IF "Estado" \notin cols_registros /\ MetaNoNumerica(mf)
                  THEN \E e \in {"KeyError", "TypeError"} : Lanzar(e) /\ SinCalculo
                  ELSE IF "Estado" \notin cols_registros
                  THEN Lanzar("KeyError") /\ SinCalculo
                  ELSE IF MetaNoNumerica(mf)
                  THEN Lanzar("TypeError") /\ SinCalculo
                  ELSE /\ meta_total' = SumaMeta(mf)
                       /\ total_proyectado' = total
                       /\ total_op' = TotalEstado(actual, OP_EMITIDA)
                       /\ total_pendiente' = TotalEstado(actual, PENDIENTE_OP)
                       /\ total_pipeline' = TotalEstado(actual, PIPELINE)
                       /\ cumplimiento' = Cumplimiento(total, SumaMeta(mf))
                       /\ pc' = "kpis"
                       /\ UNCHANGED excepcion

KPIs ==
    /\ pc = "kpis"
    /\ salida' = salida \o <<"metric", "metric", "metric", "metric">>
    /\ pc' = "graficos"
    /\ UNCHANGED <<entradas, df_registros, mes_seleccionado, vendedor_sel,
                   calculos, df_evo_agg, df_tabla, excepcion>>

Graficos ==
    /\ pc = "graficos"
    /\ df_evo_agg' = EvoAgg(df_evo)
    /\ salida' = salida
                 \o <<IF df_actual # <<>> THEN "chart" ELSE "info">>
                 \o <<IF EvoAgg(df_evo) # <<>> THEN "chart" ELSE "info">>
    /\ pc' = "detalle"
    /\ UNCHANGED <<entradas, df_registros, mes_seleccionado, vendedor_sel,
                   calculos, df_tabla, excepcion>>

Detalle ==
    /\ pc = "detalle"
    /\ UNCHANGED <<entradas, df_registros, mes_seleccionado, vendedor_sel,
                   calculos, df_evo_agg>>
    /\ IF df_actual = <<>>
       THEN /\ salida' = Append(salida, "write")
            /\ pc' = "estancamiento"
            /\ UNCHANGED <<df_tabla, excepcion>>
       ELSE IF "Cliente" \notin cols_registros \/ "Fase_Detalle" \notin cols_registros
       THEN Lanzar("KeyError") /\ UNCHANGED <<df_tabla, salida>>
       ELSE \E t \in SortValues(ColumnasTabla(df_actual)) :
            /\ df_tabla' = t
            /\ salida' = Append(salida, "dataframe")
            /\ pc' = "estancamiento"
            /\ UNCHANGED excepcion

Estancamiento ==
    /\ pc = "estancamiento"
    /\ UNCHANGED <<entradas, df_registros, mes_seleccionado, vendedor_sel,
                   calculos, df_evo_agg, df_tabla>>
    /\ IF SelectSeq(df_actual, LAMBDA r : r.Estado = PENDIENTE_OP) # <<>>
       THEN /\ salida' = Append(salida, "chart")
            /\ pc' = "fin"
            /\ UNCHANGED excepcion
       ELSE /\ salida' = Append(salida, "success")
            /\ pc' = "fin"
            /\ UNCHANGED excepcion

Next == Conectar \/ Filtros \/ Procesar \/ KPIs \/ Graficos \/ Detalle \/ Estancamiento

-----------------------------------------------------------------------------
(* Initial states: the sheets a run finds *)

InitCon(Hojas, Metas, ColsR, ColsM, Fetch) ==
    /\ hoja_registros \in Hojas
    /\ hoja_metas \in Metas
    /\ cols_registros \in ColsR
    /\ cols_metas \in ColsM
    /\ fetch_ok \in Fetch
    /\ pc = "conectar"
    /\ df_registros = <<>>
    /\ mes_seleccionado = NaN
    /\ vendedor_sel = Todos
    /\ df_mes = <<>>
    /\ fecha_maxima = NaT
    /\ df_actual = <<>>
    /\ df_evo = <<>>
    /\ meta_total = 0
    /\ total_proyectado = 0
    /\ total_op = 0
    /\ total_pendiente = 0
    /\ total_pipeline = 0
    /\ cumplimiento = [num |-> 0, den |-> 1]
    /\ df_evo_agg = <<>>
    /\ df_tabla = <<>>
    /\ salida = <<>>
    /\ excepcion = ""

-----------------------------------------------------------------------------
(* Families of sheets *)

Clientes == {"A", "B"}
Personas == {"Ana", "Juan"}
Meses == {"2025-01", "2025-02"}
Estados == {OP_EMITIDA, PENDIENTE_OP, PIPELINE, "op emitida", "Fendiente",
            "Pipeline comercial", "xyz"}
Semanas == {Num(k) : k \in 1..MaxFecha}
Valores == {Num(k) : k \in 1..MaxValor}

Fila(f, c, v, e, val, m) ==
    [Fecha_Reporte |-> f, Cliente |-> c, Vendedor |-> v, Estado |-> e,
     Valor |-> val, Mes_Objetivo |-> m]

Meta(m, v, c) == [Mes_Objetivo |-> m, Vendedor |-> v, Meta_Total |-> c]

MetasBase == {<<Meta("2025-01", "Ana", Num(1)), Meta("2025-01", "Juan", Num(MaxMeta))>>}

\* weekly reports of several clients and salespeople over two months
FilasReductor ==
    {Fila(f, c, v, PIPELINE, Num(1), m) :
        f \in Semanas, c \in Clientes, v \in Personas, m \in Meses}

\* weekly amounts of two salespeople over two months
FilasEvolucion ==
    {Fila(f, "A", v, PIPELINE, val, m) :
        f \in Semanas, v \in Personas, val \in Valores, m \in Meses}

\* one month's rows of several clients, with equal and different amounts
FilasDetalle ==
    {Fila(f, c, "Ana", PIPELINE, val, "2025-01") :
        f \in Semanas, c \in Clientes, val \in Valores}

\* one week's rows with every status label
FilasEstados ==
    {Fila(Num(1), "A", "Ana", e, val, "2025-01") : e \in Estados, val \in Valores}

\* two salespeople, one row each
HojasMetas ==
    {<<Fila(Num(1), "A", "Ana", PIPELINE, a, "2025-01"),
       Fila(Num(1), "B", "Juan", PIPELINE, Num(1), "2025-01")>> : a \in Valores}

\* targets of a salesperson, or of the whole team (no Vendedor), per month
FilasMeta ==
    {Meta(m, v, Num(k)) : m \in Meses, v \in Personas \cup {NaN}, k \in 0..MaxMeta}

\* rows with unparsable or empty dates and amounts
FilasCalidad ==
    {Fila(f, "A", "Ana", PIPELINE, val, "2025-01") :
        f \in Semanas \cup {Texto, Vacio}, val \in Valores \cup {Texto}}

MetasCalidad ==
    SeqsHasta({Meta("2025-01", "Ana", c) : c \in {Num(1), Texto, Vacio}}, 1)

\* rows that may be dropped or carry no month
FilasVacio ==
    {Fila(f, "A", v, PIPELINE, Num(1), m) :
        f \in Semanas \cup {Texto}, v \in Personas, m \in {"2025-01", NaN}}

HojasColumnas ==
    {<<Fila(Num(1), "A", "Ana", OP_EMITIDA, Num(1), "2025-01")>>,
     <<Fila(Num(1), "A", "Ana", OP_EMITIDA, Num(1), "2025-01"),
       Fila(Num(2), "B", "Juan", PENDIENTE_OP, Num(2), "2025-01")>>}

MetasColumnas == {<<>>, <<Meta("2025-01", "Ana", Num(1))>>}

Init == InitCon(SeqsHasta(FilasReductor, MaxFilas), MetasBase,
                {ColsRegistro}, {ColsMetas}, {TRUE})
Spec == Init /\ [][Next]_vars

InitEvolucion == InitCon(SeqsHasta(FilasEvolucion, MaxFilas), MetasBase,
                         {ColsRegistro}, {ColsMetas}, {TRUE})
SpecEvolucion == InitEvolucion /\ [][Next]_vars

InitDetalle == InitCon(SeqsHasta(FilasDetalle, MaxFilas), MetasBase,
                       {ColsRegistro}, {ColsMetas}, {TRUE})
SpecDetalle == InitDetalle /\ [][Next]_vars

InitEstados == InitCon(SeqsHasta(FilasEstados, MaxFilas), MetasBase,
                       {ColsRegistro}, {ColsMetas}, {TRUE})
SpecEstados == InitEstados /\ [][Next]_vars

InitMetas == InitCon(HojasMetas, SeqsHasta(FilasMeta, MaxMetaFilas),
                     {ColsRegistro}, {ColsMetas}, {TRUE})
SpecMetas == InitMetas /\ [][Next]_vars

InitCalidad == InitCon(SeqsHasta(FilasCalidad, MaxFilas), MetasCalidad,
                       {ColsRegistro}, {ColsMetas}, {TRUE})
SpecCalidad == InitCalidad /\ [][Next]_vars

InitVacio == InitCon(SeqsHasta(FilasVacio, MaxFilas), MetasBase,
                     {ColsRegistro}, {ColsMetas}, {TRUE})
SpecVacio == InitVacio /\ [][Next]_vars

InitColumnas == InitCon(HojasColumnas, MetasColumnas,
                        SUBSET ColsRegistro, SUBSET ColsMetas, BOOLEAN)
SpecColumnas == InitColumnas /\ [][Next]_vars

-----------------------------------------------------------------------------
(* Properties.  They are stated over the rows of the sheets by index, not  *)
(* with the operators of the pipeline; only C9, which compares the runs    *)
(* over every ordering of a sheet, applies the pipeline to each ordering.  *)

\* the business logic has run to its end (line 115 was reached)
Procesado == pc \in {"kpis", "graficos", "detalle", "estancamiento", "fin"}

\* the charts have been drawn (line 162 was reached)
Graficado == pc \in {"detalle", "estancamiento", "fin"}

Entidad(r) == <<r.Cliente, r.Vendedor>>

\* rows of the formatted registry in the selected month
EnPeriodo ==
    {i \in DOMAIN df_registros :
        /\ mes_seleccionado # NaN
        /\ df_registros[i].Mes_Objetivo = mes_seleccionado}

\* the rows of the selected month that carry its latest report date
UltimaSemana ==
    {i \in EnPeriodo :
        \A j \in EnPeriodo :
            df_registros[j].Fecha_Reporte <= df_registros[i].Fecha_Reporte}

DelVendedor(I) ==
    {i \in I : vendedor_sel = Todos \/ df_registros[i].Vendedor = vendedor_sel}

\* the rows of df at the indices I, in sheet order
Extracto(df, I) == LET o == Ordenar(I) IN [k \in 1..Len(o) |-> df[o[k]]]

RECURSIVE SumaSobre(_, _)
SumaSobre(I, f) ==
    IF I = {} THEN 0
    ELSE LET i == CHOOSE x \in I : TRUE IN f[i] + SumaSobre(I \ {i}, f)

ValorDe(df) == [i \in DOMAIN df |-> df[i].Valor]

FilasDe(df, e) == {j \in DOMAIN df : Entidad(df[j]) = e}

\* C1 as stated: with no salesperson filter, the snapshot holds exactly one
\* row for every (Cliente, Vendedor) entity observed in the selected month.
C1_UnaFilaPorEntidad ==
    (Procesado /\ vendedor_sel = Todos) =>
        \A i \in EnPeriodo :
            Cardinality(FilasDe(df_actual, Entidad(df_registros[i]))) = 1

\* C1 amended: with no salesperson filter, the snapshot holds, for every
\* entity observed in the selected month, exactly the observations the entity
\* has on the month's latest report date (none if it was not reported that
\* week, several if it was reported several times), and no other row.
C1_FotoPorEntidad ==
    (Procesado /\ vendedor_sel = Todos) =>
        /\ \A i \in EnPeriodo :
              Cardinality(FilasDe(df_actual, Entidad(df_registros[i])))
              = Cardinality({k \in UltimaSemana :
                               Entidad(df_registros[k]) = Entidad(df_registros[i])})
        /\ \A j \in DOMAIN df_actual :
              \E i \in EnPeriodo : Entidad(df_registros[i]) = Entidad(df_actual[j])

\* an entity reported in the month only before its latest week: it is absent
C1_Testigo ==
    /\ pc = "fin"
    /\ vendedor_sel = Todos
    /\ \E i \in EnPeriodo : FilasDe(df_actual, Entidad(df_registros[i])) = {}
    /\ df_actual # <<>>

\* C2: the snapshot is the rows of the selected month dated on the month's
\* latest report date, the maximum being taken over every salesperson's rows,
\* then narrowed to the selected salesperson; an empty snapshot totals 0.
C2_FotoUltimaFecha ==
    Procesado =>
        /\ \E i \in UltimaSemana : df_registros[i].Fecha_Reporte = fecha_maxima
        /\ df_actual = Extracto(df_registros, DelVendedor(UltimaSemana))
        /\ df_actual = <<>> => total_proyectado = 0

\* a salesperson with rows in the month but none on its latest report date
C2_Testigo ==
    /\ pc = "fin"
    /\ vendedor_sel # Todos
    /\ \E i \in EnPeriodo : df_registros[i].Vendedor = vendedor_sel
    /\ df_actual = <<>>
    /\ total_proyectado = 0

\* rows of Metas that match the selected month and salesperson v
MetasDe(v) ==
    {i \in DOMAIN hoja_metas :
        /\ hoja_metas[i].Mes_Objetivo = mes_seleccionado
        /\ v = Todos \/ hoja_metas[i].Vendedor = v}

MontoMeta == [i \in DOMAIN hoja_metas |-> hoja_metas[i].Meta_Total.n]

PersonasConMeta ==
    {hoja_metas[i].Vendedor : i \in DOMAIN hoja_metas} \ {NaN}

MetaIndividual == [v \in PersonasConMeta |-> SumaSobre(MetasDe(v), MontoMeta)]

\* the month's target rows that name no salesperson
MetasDeEquipo ==
    {i \in MetasDe(Todos) : hoja_metas[i].Vendedor = NaN}

\* C4, first part: meta_total is the sum of Meta_Total over exactly the target
\* rows of the selected month and, with a salesperson selected, of that
\* salesperson, duplicates included.
MetaEsSumaDeFilas ==
    Procesado => meta_total = SumaSobre(MetasDe(vendedor_sel), MontoMeta)

Letras(e) ==
    CASE e = "OP Emitida" -> <<"O", "P", " ", "E", "m", "i", "t", "i", "d", "a">>
      [] e = "Pendiente OP" -> <<"P", "e", "n", "d", "i", "e", "n", "t", "e", " ", "O", "P">>
      [] e = "Pipeline" -> <<"P", "i", "p", "e", "l", "i", "n", "e">>
      [] e = "op emitida" -> <<"o", "p", " ", "e", "m", "i", "t", "i", "d", "a">>
      [] e = "Fendiente" -> <<"F", "e", "n", "d", "i", "e", "n", "t", "e">>
      [] e = "Pipeline comercial" -> <<"P", "i", "p", "e", "l", "i", "n", "e", " ", "c", "o", "m", "e", "r", "c", "i", "a", "l">>
      [] e = "xyz" -> <<"x", "y", "z">>

Minuscula(c) ==
    CASE c = "O" -> "o" [] c = "P" -> "p" [] c = "E" -> "e" [] c = "F" -> "f"
      [] OTHER -> c

Minusculas(t) == [i \in DOMAIN t |-> Minuscula(t[i])]

Contiene(t, sub) ==
    \E i \in 1..(Len(t) - Len(sub) + 1) : SubSeq(t, i, i + Len(sub) - 1) = sub

\* the classification C5 describes: ordered rules over the lower-cased label
Clasificar(e) ==
    LET t == Minusculas(Letras(e))
        op == Contiene(t, <<"o", "p">>)
        emitida == Contiene(t, <<"e", "m", "i", "t", "i", "d">>)
        pendiente == Contiene(t, <<"p", "e", "n", "d", "i", "e", "n", "t", "e">>)
        pend == Contiene(t, <<"p", "e", "n", "d">>)
        fendiente == Contiene(t, <<"f", "e", "n", "d", "i", "e", "n", "t", "e">>)
        pipeline == Contiene(t, <<"p", "i", "p", "e", "l", "i", "n", "e">>)
    IN IF op /\ emitida /\ ~pendiente THEN "Closed"
       ELSE IF pendiente \/ pend \/ fendiente THEN "Pending"
       ELSE IF pipeline THEN "InPipeline"
       ELSE "Unclassified"

FilasClase(c) == {j \in DOMAIN df_actual : Clasificar(df_actual[j].Estado) = c}

FilasEstado(e) == {j \in DOMAIN df_actual : df_actual[j].Estado = e}

FilasOtroEstado ==
    {j \in DOMAIN df_actual :
        df_actual[j].Estado \notin {OP_EMITIDA, PENDIENTE_OP, PIPELINE}}

\* C5 as stated: each status total is the sum of Valor over the snapshot rows
\* whose Estado classifies to that status under the ordered, case-insensitive
\* substring rules, and the three totals plus the unclassified amount give
\* total_value.
C5_TotalesPorClasificacion ==
    Procesado =>
        /\ total_op = SumaSobre(FilasClase("Closed"), ValorDe(df_actual))
        /\ total_pendiente = SumaSobre(FilasClase("Pending"), ValorDe(df_actual))
        /\ total_pipeline = SumaSobre(FilasClase("InPipeline"), ValorDe(df_actual))
        /\ total_op + total_pendiente + total_pipeline
           + SumaSobre(FilasClase("Unclassified"), ValorDe(df_actual))
           = total_proyectado

\* C5 amended: each status total is the sum of Valor over the snapshot rows
\* whose Estado is exactly 'OP Emitida', 'Pendiente OP' or 'Pipeline'; a row
\* with any other label is counted in no status total, and the three totals
\* plus the amount of those other rows give total_value.
C5_TotalesPorEstadoExacto ==
    Procesado =>
        /\ total_op = SumaSobre(FilasEstado(OP_EMITIDA), ValorDe(df_actual))
        /\ total_pendiente = SumaSobre(FilasEstado(PENDIENTE_OP), ValorDe(df_actual))
        /\ total_pipeline = SumaSobre(FilasEstado(PIPELINE), ValorDe(df_actual))
        /\ total_op + total_pendiente + total_pipeline
           + SumaSobre(FilasOtroEstado, ValorDe(df_actual))
           = total_proyectado

\* a row 'op emitida' beside a row 'OP Emitida': only the second is in total_op
C5_Testigo ==
    /\ pc = "fin"
    /\ FilasEstado("op emitida") # {}
    /\ FilasEstado(OP_EMITIDA) # {}
    /\ total_op > 0
    /\ total_op < total_proyectado

ColsRequeridasRegistro ==
    {"Fecha_Reporte", "Cliente", "Vendedor", "Estado", "Valor", "Mes_Objetivo"}

ColsRequeridasMetas == {"Mes_Objetivo", "Meta_Total"}

FallaEstructural ==
    \/ ~fetch_ok
    \/ ~(ColsRequeridasRegistro \subseteq cols_registros)
    \/ ~(ColsRequeridasMetas \subseteq cols_metas)

\* C6: when the fetch fails or a required column of either sheet is missing,
\* no KPI metric, chart or detail table is ever emitted, and the run does not
\* reach its end.
C6_SinSalidaParcial ==
    FallaEstructural =>
        /\ \A k \in DOMAIN salida : salida[k] \notin {"metric", "chart", "dataframe"}
        /\ pc # "fin"

\* rows of the sheet whose date parses
ConFecha ==
    {i \in DOMAIN hoja_registros : hoja_registros[i].Fecha_Reporte.t = "num"}

\* among them, the rows of the selected month, latest date and salesperson
EnFoto ==
    {i \in ConFecha :
        /\ hoja_registros[i].Mes_Objetivo = mes_seleccionado
        /\ vendedor_sel = Todos \/ hoja_registros[i].Vendedor = vendedor_sel
        /\ \A j \in ConFecha :
              hoja_registros[j].Mes_Objetivo = mes_seleccionado =>
                  hoja_registros[j].Fecha_Reporte.n <= hoja_registros[i].Fecha_Reporte.n}

ValorBueno ==
    [i \in DOMAIN hoja_registros |->
        IF hoja_registros[i].Valor.t = "num" THEN hoja_registros[i].Valor.n ELSE 0]

MetaBuena ==
    [i \in DOMAIN hoja_metas |->
        IF hoja_metas[i].Meta_Total.t = "num" THEN hoja_metas[i].Meta_Total.n ELSE 0]

\* the registry half of C7: rows with a bad date are dropped, rows with a bad
\* Valor are kept with 0, and the projection is the sum of the good values
ValoresRecuperados ==
    /\ pc \notin {"conectar", "stop"} => Len(df_registros) = Cardinality(ConFecha)
    /\ Procesado => total_proyectado = SumaSobre(EnFoto, ValorBueno)

\* C7: no malformed value blocks the report: besides the registry half, an
\* unparsable Meta_Total counts as 0, so the run never ends in an exception
\* and the target is the sum of the well-formed target values.
C7_ValoresMalformados ==
    /\ ValoresRecuperados
    /\ pc # "excepcion"
    /\ Procesado => meta_total = SumaSobre(MetasDe(vendedor_sel), MetaBuena)

FechasDe(I) == {df_registros[i].Fecha_Reporte : i \in I}

\* df_evo_agg has one point per report date of the rows I, each the sum of
\* their Valor on that date
EsSerieDe(I) ==
    /\ Len(df_evo_agg) = Cardinality(FechasDe(I))
    /\ \A f \in FechasDe(I) :
          \E k \in DOMAIN df_evo_agg :
              df_evo_agg[k] =
                  [Fecha_Reporte |-> f,
                   Valor |-> SumaSobre({i \in I : df_registros[i].Fecha_Reporte = f},
                                       ValorDe(df_registros))]

\* C8 as stated: the evolution series has one point per distinct report date
\* of all the observations of the selected month, each point the sum of
\* Valor over all of them on that date.
C8_SerieDelPeriodo == Graficado => EsSerieDe(EnPeriodo)

\* C8 amended: the series is taken over the observations of the selected
\* month, narrowed to the selected salesperson when one is selected; it covers
\* every report week of those rows, not only the snapshot date.
C8_SerieDelVendedor == Graficado => EsSerieDe(DelVendedor(EnPeriodo))

\* a salesperson's series that leaves out a colleague's row of the same month
C8_Testigo ==
    /\ pc = "fin"
    /\ vendedor_sel # Todos
    /\ df_evo_agg # <<>>
    /\ DelVendedor(EnPeriodo) # EnPeriodo

\* the detail table has been shown (line 182 was reached)
Tabulado == pc \in {"estancamiento", "fin"} /\ df_actual # <<>>

\* the detail tables the script can show for the sheet h under the selection
TablasDe(h) ==
    SortValues(ColumnasTabla(
        DfActual(FiltrarMes(Formatear(h), mes_seleccionado), vendedor_sel)))

Descendente(t) ==
    \A i, j \in DOMAIN t : i < j => t[i].Valor >= t[j].Valor

\* C9 as stated: the detail rows are in descending Valor, and every ordering
\* of the same observations gives the very same sequence of rows, ties
\* included.
C9_OrdenUnico ==
    Tabulado =>
        /\ Descendente(df_tabla)
        /\ \A h \in Reordenes(hoja_registros) :
              \A t \in TablasDe(h) : t = df_tabla

\* C9 amended: the detail rows are the snapshot rows in descending Valor, and
\* every ordering of the same observations gives the same rows with the same
\* sequence of Valor; only rows of equal Valor may change places.
C9_OrdenPorValor ==
    Tabulado =>
        /\ Descendente(df_tabla)
        /\ df_tabla \in Reordenes(ColumnasTabla(df_actual))
        /\ \A h \in Reordenes(hoja_registros) :
              \A t \in TablasDe(h) :
                  /\ t \in Reordenes(df_tabla)
                  /\ \A k \in DOMAIN t : t[k].Valor = df_tabla[k].Valor

\* two different detail rows with the same Valor
C9_Testigo ==
    /\ pc = "fin"
    /\ Len(df_tabla) = 2
    /\ df_tabla[1].Valor = df_tabla[2].Valor
    /\ df_tabla[1] # df_tabla[2]

\* the selection has been made, or could not be for want of any month, and
\* leaves no observation in the snapshot
SeleccionVacia ==
    /\ pc \notin {"conectar", "filtros"}
    /\ ~(pc = "excepcion" /\ df_mes = <<>>)
    /\ DelVendedor(UltimaSemana) = {}

SinError ==
    /\ "error" \notin Rango(salida)
    /\ pc # "excepcion"

TotalesEnCero ==
    /\ total_proyectado = 0
    /\ total_op = 0
    /\ total_pendiente = 0
    /\ total_pipeline = 0

\* C10 as stated: a selection that leaves no observation ends in an empty
\* state, with no error and no exception, without the run stopping as it does
\* on a structural error, and with every total 0.
C10_VacioSinDetener ==
    SeleccionVacia =>
        /\ SinError
        /\ pc # "stop"
        /\ Procesado => TotalesEnCero

\* C10 amended: no error and no exception in either case.  When the selected
\* month has no observation (or the sheet has no dated row at all) the run
\* shows one warning or notice and stops there, as on a structural error,
\* before any KPI, chart or table.  When the month has observations and the
\* selected salesperson has none in the snapshot the run does not stop: every
\* total is 0 and it ends with the KPIs and the empty-state messages.
C10_EstadoVacio ==
    SeleccionVacia =>
        /\ SinError
        /\ IF EnPeriodo = {}
           THEN /\ pc \in {"procesar", "stop"}
                /\ pc = "stop" => salida \in {<<"warning">>, <<"info">>}
           ELSE /\ pc # "stop"
                /\ Procesado => TotalesEnCero
                /\ pc = "fin" =>
                      /\ "dataframe" \notin Rango(salida)
                      /\ "write" \in Rango(salida)

\* the only month offered has no rows: the run stops on the notice of line 80
C10_Testigo ==
    /\ pc = "stop"
    /\ df_registros # <<>>
    /\ salida = <<"info">>

====
